---- MODULE Spec2Model ----
(***************************************************************************)
(* WeatherSync (IndraCast): the ensemble fetch / aggregate cycle of the    *)
(* WeatherApp class.                                                       *)
(*                                                                         *)
(* Numbers are fixed-point integers in hundredths (21.0 degrees is 2100),  *)
(* computed exactly; a JavaScript value that may be undefined (or NaN) is  *)
(* a sequence of length 0 (undefined) or 1 (the number).                   *)
(***************************************************************************)
EXTENDS Integers, Sequences, FiniteSets, TLC

\* ------------------------------------------------------------------------
\* JavaScript values
\* ------------------------------------------------------------------------
Undefined == <<>>

Num(n) == <<n>>

\* x || 0 on a number-or-undefined value
OrZero(x) == IF x = Undefined THEN 0 ELSE x[1]

\* o.k, undefined when the property is missing
Get(o, k) == IF k \in DOMAIN o THEN o[k] ELSE Undefined

\* x * 3.6 (m/s to km/h); undefined * 3.6 is NaN, kept as Undefined
MulWind(x) == IF x = Undefined THEN Undefined ELSE Num((x[1] * 36) \div 10)

\* x / 1000 (m to km): x is in whole metres, the result in hundredths of km
DivVisibility(x) == IF x = Undefined THEN Undefined ELSE Num(x[1] \div 10)

\* Math.round(num / den) for den > 0: the nearest integer, halves towards
\* plus infinity
MathRound(num, den) == (2 * num + den) \div (2 * den)

\* ------------------------------------------------------------------------
\* Provider identities, in the order of the promises array of
\* loadWeatherData
\* ------------------------------------------------------------------------
OWM == "openweathermap"

WB == "weatherbit"

OM == "open-meteo"

AQ == "airQuality"

AL == "alerts"

WeatherFetches == {OWM, WB, OM}

Fetches == {OWM, WB, OM, AQ, AL}

\* ------------------------------------------------------------------------
\* Icon and description tables
\* ------------------------------------------------------------------------
DefaultIcon == "partly-cloudy"

\* CONFIG.WEATHER_CONDITIONS[code]?.icon || default
getWeatherIcon(code) ==
    IF code = Undefined THEN DefaultIcon
    ELSE IF code[1] \in {200, 201, 202, 211, 212, 221, 230, 231, 232} THEN "thunderstorm"
    ELSE IF code[1] = 210 THEN "lightning"
    ELSE IF code[1] \in {300, 301, 302, 310, 311, 312, 313, 314, 321,
                         520, 521, 522, 531} THEN "sun-rain"
    ELSE IF code[1] \in {500, 501, 502, 503, 504} THEN "rain"
    ELSE IF code[1] \in {511, 600, 601, 611, 612, 613, 615, 616, 620, 621} THEN "snow-cloud"
    ELSE IF code[1] \in {602, 622} THEN "snowflake"
    ELSE IF code[1] \in {701, 721, 741} THEN "fog"
    ELSE IF code[1] \in {711, 731, 751, 761, 771} THEN "wind"
    ELSE IF code[1] = 762 THEN "volcano"
    ELSE IF code[1] = 781 THEN "tornado"
    ELSE IF code[1] = 800 THEN "sun"
    ELSE IF code[1] = 801 THEN "sun-small-cloud"
    ELSE IF code[1] = 802 THEN "partly-cloudy"
    ELSE IF code[1] = 803 THEN "sun-behind-cloud"
    ELSE IF code[1] = 804 THEN "cloud"
    ELSE DefaultIcon

getOpenMeteoDescription(code) ==
    IF code = Undefined THEN "Unknown"
    ELSE IF code[1] = 0 THEN "Clear sky"
    ELSE IF code[1] = 1 THEN "Mainly clear"
    ELSE IF code[1] = 2 THEN "Partly cloudy"
    ELSE IF code[1] = 3 THEN "Overcast"
    ELSE IF code[1] = 45 THEN "Fog"
    ELSE IF code[1] = 48 THEN "Depositing rime fog"
    ELSE IF code[1] = 51 THEN "Light drizzle"
    ELSE IF code[1] = 53 THEN "Moderate drizzle"
    ELSE IF code[1] = 55 THEN "Dense drizzle"
    ELSE IF code[1] = 61 THEN "Light rain"
    ELSE IF code[1] = 63 THEN "Moderate rain"
    ELSE IF code[1] = 65 THEN "Heavy rain"
    ELSE IF code[1] = 71 THEN "Light snow"
    ELSE IF code[1] = 73 THEN "Moderate snow"
    ELSE IF code[1] = 75 THEN "Heavy snow"
    ELSE IF code[1] = 95 THEN "Thunderstorm"
    ELSE IF code[1] = 96 THEN "Thunderstorm with light hail"
    ELSE IF code[1] = 99 THEN "Thunderstorm with heavy hail"
    ELSE "Unknown"

getOpenMeteoIcon(code) ==
    IF code = Undefined THEN DefaultIcon
    ELSE IF code[1] = 0 THEN "sun"
    ELSE IF code[1] = 1 THEN "sun-small-cloud"
    ELSE IF code[1] = 2 THEN "partly-cloudy"
    ELSE IF code[1] = 3 THEN "cloud"
    ELSE IF code[1] \in {45, 48} THEN "fog"
    ELSE IF code[1] \in {51, 53, 55} THEN "sun-rain"
    ELSE IF code[1] \in {61, 63, 65} THEN "rain"
    ELSE IF code[1] \in {71, 73} THEN "snow-cloud"
    ELSE IF code[1] = 75 THEN "snowflake"
    ELSE IF code[1] \in {95, 96, 99} THEN "thunderstorm"
    ELSE DefaultIcon

\* ------------------------------------------------------------------------
\* Normalizers.  A TypeError (property read on undefined) is the record
\* Thrown; a normalized record never has the field "threw".
\* ------------------------------------------------------------------------
Thrown == [threw |-> TRUE]

Threw(x) == "threw" \in DOMAIN x

\* A text: like a number, a sequence of length 0 (undefined) or 1
Text(s) == <<s>>

\* data is the parsed body of the current-weather call
normalizeOpenWeatherMapData(data) ==
    IF \/ ~("main" \in DOMAIN data)
       \/ ~("wind" \in DOMAIN data)
       \/ ~("clouds" \in DOMAIN data)
       \/ ~("weather" \in DOMAIN data)
    THEN Thrown
    ELSE IF Len(data.weather) = 0 THEN Thrown
    ELSE [source |-> "OpenWeatherMap",
          temperature |-> Get(data.main, "temp"),
          feelsLike |-> Get(data.main, "feels_like"),
          humidity |-> Get(data.main, "humidity"),
          pressure |-> Get(data.main, "pressure"),
          windSpeed |-> MulWind(Get(data.wind, "speed")),
          windDirection |-> Get(data.wind, "deg"),
          visibility |-> DivVisibility(Get(data, "visibility")),
          uvIndex |-> Num(0),
          cloudCover |-> Get(data.clouds, "all"),
          precipitationChance |-> Num(0),
          description |-> Get(data.weather[1], "description"),
          icon |-> getWeatherIcon(Get(data.weather[1], "id")),
          timestamp |-> Get(data, "dt")]

\* data is currentData.data[0]: a sequence of length 0 when that element
\* does not exist, else the one-element sequence holding the record; now is
\* Date.now() / 1000
normalizeWeatherbitData(data, now) ==
    IF data = <<>> THEN Thrown
    ELSE IF ~("weather" \in DOMAIN data[1]) THEN Thrown
    ELSE [source |-> "Weatherbit",
          temperature |-> Get(data[1], "temp"),
          feelsLike |-> Get(data[1], "app_temp"),
          humidity |-> Get(data[1], "rh"),
          pressure |-> Get(data[1], "pres"),
          windSpeed |-> MulWind(Get(data[1], "wind_spd")),
          windDirection |-> Get(data[1], "wind_dir"),
          visibility |-> Get(data[1], "vis"),
          uvIndex |-> Num(OrZero(Get(data[1], "uv"))),
          cloudCover |-> Get(data[1], "clouds"),
          precipitationChance |-> Num(0),
          description |-> Get(data[1].weather, "description"),
          icon |-> getWeatherIcon(Get(data[1].weather, "code")),
          timestamp |-> Num(now)]

\* data is the parsed body of the forecast call
normalizeOpenMeteoData(data, now) ==
    IF ~("current" \in DOMAIN data) THEN Thrown
    ELSE [source |-> "Open-Meteo",
          temperature |-> Get(data.current, "temperature_2m"),
          feelsLike |-> Get(data.current, "apparent_temperature"),
          humidity |-> Get(data.current, "relative_humidity_2m"),
          pressure |-> Get(data.current, "pressure_msl"),
          windSpeed |-> Get(data.current, "wind_speed_10m"),
          windDirection |-> Get(data.current, "wind_direction_10m"),
          visibility |-> Num(1000),
          uvIndex |-> Num(0),
          cloudCover |-> Get(data.current, "cloud_cover"),
          precipitationChance |-> Num(OrZero(Get(data.current, "precipitation"))),
          description |-> Text(getOpenMeteoDescription(Get(data.current, "weather_code"))),
          icon |-> getOpenMeteoIcon(Get(data.current, "weather_code")),
          timestamp |-> Num(now)]

\* ------------------------------------------------------------------------
\* createEnsembleWeather
\* ------------------------------------------------------------------------
NumericKeys == {"temperature", "feelsLike", "humidity", "pressure", "windSpeed",
                "windDirection", "visibility", "uvIndex", "cloudCover",
                "precipitationChance"}

RECURSIVE SumField(_, _)
\* the forEach of createEnsembleWeather for one key: sum of (source[key] || 0)
SumField(sources, key) ==
    IF sources = <<>> THEN 0
    ELSE OrZero(Head(sources)[key]) + SumField(Tail(sources), key)

\* Math.round((sum / numSources) * 10) / 10, on hundredths:
\* sum / 100 / n * 10 = sum / (10 n), rounded, then tenths back to hundredths
RoundAverage(sum, numSources) == 10 * MathRound(sum, 10 * numSources)

\* null is the record Null
Null == [null |-> TRUE]

IsNull(x) == "null" \in DOMAIN x

\* variant: no early return for an empty array, the zero-initialised
\* ensemble is returned
createEnsembleWeatherZeroed(sources) ==
    IF Len(sources) = 1 THEN sources[1]
    ELSE [k \in NumericKeys \cup {"description", "icon", "sources"} |->
            IF k = "description"
            THEN (IF Len(sources) = 0 THEN Undefined ELSE sources[1].description)
            ELSE IF k = "icon"
            THEN (IF Len(sources) = 0 THEN DefaultIcon ELSE sources[1].icon)
            ELSE IF k = "sources" THEN [i \in 1..Len(sources) |-> sources[i].source]
            ELSE IF Len(sources) = 0 THEN Num(0)
            ELSE Num(RoundAverage(SumField(sources, k), Len(sources)))]

\* variant: a single record is averaged and rounded like several
createEnsembleWeatherAlwaysAveraged(sources) ==
    IF Len(sources) = 0 THEN Null
    ELSE [k \in NumericKeys \cup {"description", "icon", "sources"} |->
            IF k = "description" THEN sources[1].description
            ELSE IF k = "icon" THEN sources[1].icon
            ELSE IF k = "sources" THEN [i \in 1..Len(sources) |-> sources[i].source]
            ELSE Num(RoundAverage(SumField(sources, k), Len(sources)))]

\* variant: description and icon are those of the last record
createEnsembleWeatherLastDescription(sources) ==
    IF Len(sources) = 0 THEN Null
    ELSE IF Len(sources) = 1 THEN sources[1]
    ELSE [k \in NumericKeys \cup {"description", "icon", "sources"} |->
            IF k = "description" THEN sources[Len(sources)].description
            ELSE IF k = "icon" THEN sources[Len(sources)].icon
            ELSE IF k = "sources" THEN [i \in 1..Len(sources) |-> sources[i].source]
            ELSE Num(RoundAverage(SumField(sources, k), Len(sources)))]

createEnsembleWeather(sources) ==
    IF Len(sources) = 0 THEN Null
    ELSE IF Len(sources) = 1 THEN sources[1]
    ELSE [k \in NumericKeys \cup {"description", "icon", "sources"} |->
            IF k = "description" THEN sources[1].description
            ELSE IF k = "icon" THEN sources[1].icon
            ELSE IF k = "sources" THEN [i \in 1..Len(sources) |-> sources[i].source]
            ELSE Num(RoundAverage(SumField(sources, k), Len(sources)))]

\* ------------------------------------------------------------------------
\* Forecast series
\* ------------------------------------------------------------------------
HourlyHorizon == 24

DailyHorizon == 7

Min(a, b) == IF a < b THEN a ELSE b

\* variant: the array is not cut at n
SliceWhole(arr, n) == arr

\* Array.prototype.slice(0, n)
Slice(arr, n) == SubSeq(arr, 1, Min(n, Len(arr)))

\* arr[i] of a parallel array that may be missing or too short
Elem(o, k, i) ==
    IF k \in DOMAIN o THEN (IF i <= Len(o[k]) THEN o[k][i] ELSE Undefined)
    ELSE Undefined

\* hourly.<field>[i] is a TypeError when the array <field> is missing
HourlyArrays == {"temperature_2m", "apparent_temperature", "relative_humidity_2m",
                 "precipitation_probability", "weather_code", "wind_speed_10m",
                 "uv_index"}

DailyArrays == {"temperature_2m_max", "temperature_2m_min", "weather_code",
                "precipitation_sum", "wind_speed_10m_max", "uv_index_max",
                "precipitation_probability_max"}

processOpenMeteoHourly(data) ==
    IF ~("hourly" \in DOMAIN data) THEN Thrown
    ELSE IF ~("time" \in DOMAIN data.hourly) THEN Thrown
    ELSE IF Len(data.hourly.time) > 0 /\ ~(HourlyArrays \subseteq DOMAIN data.hourly) THEN Thrown
    ELSE [processed |->
            [i \in 1..Min(HourlyHorizon, Len(data.hourly.time)) |->
                [time |-> data.hourly.time[i],
                 temp |-> Elem(data.hourly, "temperature_2m", i),
                 feels_like |-> Elem(data.hourly, "apparent_temperature", i),
                 humidity |-> Elem(data.hourly, "relative_humidity_2m", i),
                 precipitation_prob |-> Elem(data.hourly, "precipitation_probability", i),
                 weather_code |-> Elem(data.hourly, "weather_code", i),
                 wind_speed |-> Elem(data.hourly, "wind_speed_10m", i),
                 uv_index |-> Elem(data.hourly, "uv_index", i)]]]

processOpenMeteoDaily(data) ==
    IF ~("daily" \in DOMAIN data) THEN Thrown
    ELSE IF ~("time" \in DOMAIN data.daily) THEN Thrown
    ELSE IF Len(data.daily.time) > 0 /\ ~(DailyArrays \subseteq DOMAIN data.daily) THEN Thrown
    ELSE [processed |->
            [i \in 1..Min(DailyHorizon, Len(data.daily.time)) |->
                [date |-> data.daily.time[i],
                 max_temp |-> Elem(data.daily, "temperature_2m_max", i),
                 min_temp |-> Elem(data.daily, "temperature_2m_min", i),
                 weather_code |-> Elem(data.daily, "weather_code", i),
                 precipitation_sum |-> Elem(data.daily, "precipitation_sum", i),
                 wind_speed_max |-> Elem(data.daily, "wind_speed_10m_max", i),
                 uv_index_max |-> Elem(data.daily, "uv_index_max", i),
                 precipitation_probability_max |->
                     Elem(data.daily, "precipitation_probability_max", i)]]]

\* ------------------------------------------------------------------------
\* processEnsembleData.  results is the array Promise.allSettled gives: for
\* each fetch a record with status "fulfilled" and a value, or status
\* "rejected".  The operators return [wd, threw]: the held weatherData as the
\* statements executed so far left it, and whether a TypeError ended them.
\* ------------------------------------------------------------------------
Fulfilled(results, f) == results[f].status = "fulfilled"

\* the pushes of lines 728-738, in their order
NormalizedOf(results, f, now) ==
    IF f = OWM THEN normalizeOpenWeatherMapData(results[f].value.current)
    ELSE IF f = WB THEN normalizeWeatherbitData(results[f].value.current, now)
    ELSE normalizeOpenMeteoData(results[f].value.data, now)

\* variant: the Weatherbit record is pushed first
PushOrderWeatherbitFirst == <<WB, OWM, OM>>

PushOrder == <<OWM, WB, OM>>

RECURSIVE CurrentWeatherSourcesUntilFailure(_, _, _)
\* variant: the pushes stop at the first provider whose fetch failed
CurrentWeatherSourcesUntilFailure(results, order, now) ==
    IF order = <<>> THEN <<>>
    ELSE IF Fulfilled(results, Head(order))
         THEN <<NormalizedOf(results, Head(order), now)>>
                  \o CurrentWeatherSourcesUntilFailure(results, Tail(order), now)
         ELSE <<>>

RECURSIVE CurrentWeatherSources(_, _, _)
CurrentWeatherSources(results, order, now) ==
    IF order = <<>> THEN <<>>
    ELSE IF Fulfilled(results, Head(order))
         THEN <<NormalizedOf(results, Head(order), now)>>
                  \o CurrentWeatherSources(results, Tail(order), now)
         ELSE CurrentWeatherSources(results, Tail(order), now)

\* value.hourly / value.daily of Weatherbit is truthy: present (an empty
\* array is truthy)
Truthy(x) == x /= Undefined

\* a statement completed normally and left the held data as wd
Done(wd) == [wd |-> wd, threw |-> FALSE]

\* a TypeError ended the statements, the held data being wd
Failed(wd) == [wd |-> wd, threw |-> TRUE]

\* this.weatherData.hourly = processOpenMeteoHourly(...), h being what the
\* call gives
SetHourly(wd, h) ==
    IF Threw(h) THEN Failed(wd) ELSE Done([wd EXCEPT !.hourly = h.processed])

\* variant: Open-Meteo is asked first for the hourly series
HourlyForecastTertiaryFirst(wd, results) ==
    IF Fulfilled(results, OM)
    THEN SetHourly(wd, processOpenMeteoHourly(results[OM].value.data))
    ELSE IF Fulfilled(results, WB) /\ Truthy(results[WB].value.hourly)
    THEN Done([wd EXCEPT !.hourly = Slice(results[WB].value.hourly[1], HourlyHorizon)])
    ELSE Done(wd)

\* lines 959-963
HourlyForecast(wd, results) ==
    IF Fulfilled(results, WB) /\ Truthy(results[WB].value.hourly)
    THEN Done([wd EXCEPT !.hourly = Slice(results[WB].value.hourly[1], HourlyHorizon)])
    ELSE IF Fulfilled(results, OM)
    THEN SetHourly(wd, processOpenMeteoHourly(results[OM].value.data))
    ELSE Done(wd)

SetDaily(wd, d) ==
    IF Threw(d) THEN Failed(wd) ELSE Done([wd EXCEPT !.daily = d.processed])

\* lines 966-970
DailyForecast(wd, results) ==
    IF Fulfilled(results, WB) /\ Truthy(results[WB].value.daily)
    THEN Done([wd EXCEPT !.daily = Slice(results[WB].value.daily[1], DailyHorizon)])
    ELSE IF Fulfilled(results, OM)
    THEN SetDaily(wd, processOpenMeteoDaily(results[OM].value.data))
    ELSE Done(wd)

\* the daily branch runs when the hourly branch, which left r, did not throw
ThenDaily(r, results) == IF r.threw THEN r ELSE DailyForecast(r.wd, results)

processEnsembleForecasts(wd, results) ==
    ThenDaily(HourlyForecast([wd EXCEPT !.hourly = <<>>, !.daily = <<>>], results),
              results)

\* lines 747-749
SetAirQuality(wd, results) ==
    IF Fulfilled(results, AQ) THEN [wd EXCEPT !.airQuality = results[AQ].value]
    ELSE wd

\* lines 752-754
SetAlerts(wd, results) ==
    IF Fulfilled(results, AL) THEN [wd EXCEPT !.alerts = results[AL].value.alerts]
    ELSE wd

\* lines 747-754 run when the forecasts, which left r, did not throw
ThenAirQualityAndAlerts(r, results) ==
    IF r.threw THEN r ELSE Done(SetAlerts(SetAirQuality(r.wd, results), results))

\* lines 741-754, sources being the records pushed by lines 728-738: a
\* normalizer that threw has ended the function before any assignment
ProcessSources(wd, results, sources) ==
    IF \E i \in 1..Len(sources) : Threw(sources[i]) THEN Failed(wd)
    ELSE ThenAirQualityAndAlerts(
             processEnsembleForecasts(
                 [wd EXCEPT !.current = createEnsembleWeather(sources)], results),
             results)

processEnsembleData(wd, results, now) ==
    ProcessSources(wd, results, CurrentWeatherSources(results, PushOrder, now))

\* ------------------------------------------------------------------------
\* Response bodies the providers can send (the inputs of the model).  t is
\* the reported temperature in hundredths of a degree.
\* ------------------------------------------------------------------------
ErrorBody == [cod |-> Num(401), message |-> Text("Invalid API key")]

OWMCurrentBody(t) ==
    [main |-> [temp |-> Num(t), feels_like |-> Num(t - 150),
               humidity |-> Num(6500), pressure |-> Num(101300)],
     wind |-> [speed |-> Num(500), deg |-> Num(18000)],
     visibility |-> Num(10000),
     clouds |-> [all |-> Num(4000)],
     weather |-> <<[id |-> Num(800), description |-> Text("clear sky")]>>,
     dt |-> Num(1700000000)]

OWMBody(t) == [current |-> OWMCurrentBody(t), forecast |-> [cnt |-> Num(40)]]

OWMErrorBodies == [current |-> ErrorBody, forecast |-> ErrorBody]

WBCurrentRecord(t) ==
    [temp |-> Num(t), app_temp |-> Num(t - 50), rh |-> Num(7000),
     pres |-> Num(101200), wind_spd |-> Num(250), wind_dir |-> Num(9000),
     vis |-> Num(1600), uv |-> Num(400), clouds |-> Num(2000),
     weather |-> [code |-> Num(801), description |-> Text("Few clouds")]]

\* n forecast entries as Weatherbit reports them
WBSeries(t, n) == [i \in 1..n |-> [datetime |-> Num(i), temp |-> Num(t + i)]]

WBBody(t, nh, nd) ==
    [current |-> [data |-> <<WBCurrentRecord(t)>>],
     daily |-> [data |-> WBSeries(t, nd)],
     hourly |-> [data |-> WBSeries(t, nh)]]

\* a 200 answer with no station in range
WBEmptyBody == [current |-> [data |-> <<>>], daily |-> [data |-> <<>>],
                hourly |-> [data |-> <<>>]]

WBErrorBodies == [current |-> ErrorBody, daily |-> ErrorBody, hourly |-> ErrorBody]

OMArray(t, n) == [i \in 1..n |-> Num(t + i)]

OMBody(t, nh, nd) ==
    [current |-> [temperature_2m |-> Num(t), apparent_temperature |-> Num(t - 100),
                  relative_humidity_2m |-> Num(6000), pressure_msl |-> Num(101400),
                  wind_speed_10m |-> Num(1200), wind_direction_10m |-> Num(27000),
                  cloud_cover |-> Num(5000), precipitation |-> Num(0),
                  weather_code |-> Num(2)],
     hourly |-> [time |-> OMArray(0, nh), temperature_2m |-> OMArray(t, nh),
                 apparent_temperature |-> OMArray(t, nh),
                 relative_humidity_2m |-> OMArray(6000, nh),
                 precipitation_probability |-> OMArray(0, nh),
                 weather_code |-> OMArray(0, nh),
                 wind_speed_10m |-> OMArray(1200, nh),
                 uv_index |-> OMArray(0, nh)],
     daily |-> [time |-> OMArray(0, nd), temperature_2m_max |-> OMArray(t, nd),
                temperature_2m_min |-> OMArray(t - 1000, nd),
                weather_code |-> OMArray(0, nd),
                precipitation_sum |-> OMArray(0, nd),
                wind_speed_10m_max |-> OMArray(1200, nd),
                uv_index_max |-> OMArray(0, nd),
                precipitation_probability_max |-> OMArray(0, nd)]]

OMErrorBody == [error |-> TRUE, reason |-> Text("Bad request")]

\* air quality: OpenWeatherMap reports main.aqi on a 1-5 scale, Open-Meteo
\* us_aqi on the 0-500 scale (whole index values, not hundredths)
AQOwmBody(aqi) == [list |-> <<[main |-> [aqi |-> Num(aqi)]]>>]

AQOmBody(aqi) == [current |-> [us_aqi |-> Num(aqi)]]

\* NOAA alert features
Alert(event, severity) ==
    [properties |-> [event |-> Text(event), severity |-> Text(severity)]]

ALBody(alerts) == [features |-> alerts]

\* ------------------------------------------------------------------------
\* The fetch functions after their awaits: the value each returns from the
\* parsed bodies, or Thrown when a property read fails (the fetch rejects)
\* ------------------------------------------------------------------------
\* o.k for an array-valued property that may be missing
Opt(o, k) == IF k \in DOMAIN o THEN <<o[k]>> ELSE Undefined

fetchOpenWeatherMapData(body) ==
    [source |-> "openweathermap", current |-> body.current, forecast |-> body.forecast]

fetchWeatherbitData(body) ==
    IF ~("data" \in DOMAIN body.current) THEN Thrown
    ELSE [source |-> "weatherbit",
          current |-> SubSeq(body.current.data, 1, Min(1, Len(body.current.data))),
          daily |-> Opt(body.daily, "data"),
          hourly |-> Opt(body.hourly, "data")]

fetchOpenMeteoData(body) == [source |-> "open-meteo", data |-> body]

\* the first air-quality source: data.list[0]
fetchAirQualityData(body) ==
    IF ~("list" \in DOMAIN body) THEN Thrown
    ELSE [source |-> "openweathermap",
          data |-> SubSeq(body.list, 1, Min(1, Len(body.list)))]

\* the fallback source: data.current
fetchAirQualityFallback(body) ==
    [source |-> "open-meteo", data |-> Opt(body, "current")]

\* data.features || []
fetchGovernmentAlerts(body) ==
    [source |-> "noaa",
     alerts |-> IF "features" \in DOMAIN body THEN body.features ELSE <<>>]

AlertsUnavailable == [source |-> "error", alerts |-> <<>>]

createDemoAlerts == <<>>

DemoAlerts == [source |-> "demo", alerts |-> createDemoAlerts]

\* ------------------------------------------------------------------------
\* Bounds and input sets
\* ------------------------------------------------------------------------
\* loadWeatherData invocations that may be in flight together
MaxInFlight == 2

\* network requests that lost their race to the timer and are still
\* travelling: counted up to this number
MaxAbandoned == 1

\* values Date.now() / 1000 takes
MaxClock == 1

Clock == 1..MaxClock

NoLocation == "none"

\* the places a search or the reverse geocoding of the device position finds
Locations == {"New York", "Delhi"}

Country(loc) == IF loc = "New York" THEN "US" ELSE "IN"

\* temperatures (hundredths) the three providers report at a location
TempAt(f, loc) ==
    (IF loc = "New York" THEN 1800 ELSE 3200)
      + (IF f = OWM THEN 0 ELSE IF f = WB THEN 200 ELSE 400)

AqiAt(loc) == IF loc = "New York" THEN 2 ELSE 5

UsAqiAt(loc) == IF loc = "New York" THEN 40 ELSE 160

GoodBody(f, stage, loc) ==
    IF f = OWM THEN OWMBody(TempAt(OWM, loc))
    ELSE IF f = WB THEN WBBody(TempAt(WB, loc), 2, 2)
    ELSE IF f = OM THEN OMBody(TempAt(OM, loc), 1, 1)
    ELSE IF f = AQ THEN (IF stage = 1 THEN AQOwmBody(AqiAt(loc)) ELSE AQOmBody(UsAqiAt(loc)))
    ELSE ALBody(<<Alert("Flood Warning", "Severe")>>)

\* the bodies a fetch may read: the well-formed one, and the bodies of
\* answers that carry no data
Bodies(f, stage, loc) ==
    {GoodBody(f, stage, loc)} \cup
    (IF f = OWM THEN {OWMErrorBodies}
     ELSE IF f = WB THEN {WBEmptyBody, WBErrorBodies}
     ELSE IF f = OM THEN {OMErrorBody}
     ELSE IF f = AQ THEN (IF stage = 1 THEN {ErrorBody} ELSE {})
     ELSE {ALBody(<<>>)})

\* ------------------------------------------------------------------------
\* State
\* ------------------------------------------------------------------------
VARIABLES
    boot,             \* "constructed" until initializeLocation has run
    currentLocation,  \* this.currentLocation (NoLocation is null)
    weatherData,      \* this.weatherData
    settings,         \* this.settings
    changeListeners,  \* the change listeners attached to the auto-refresh checkbox
    storage,          \* the observation storage (useLocalStorage, localStorage)
    isLoading,        \* this.isLoading
    refreshTimer,     \* this.refreshTimer (0 is null)
    intervals,        \* the interval timers armed in the browser
    cycles,           \* the loadWeatherData invocations awaiting allSettled
    abandoned,        \* requests that lost the race of fetchWithTimeout
    search,           \* handleLocationSearch awaiting searchLocations
    geo,              \* getCurrentLocation in progress
    lastCycle         \* log: the loadWeatherData invocation that ended last,
                      \* kept until the next one starts

vars == <<boot, currentLocation, weatherData, settings, changeListeners, storage, isLoading,
          refreshTimer,
          intervals, cycles, abandoned, search, geo, lastCycle>>

NoCycle == [none |-> TRUE]

NoValue == [none |-> TRUE]

\* ------------------------------------------------------------------------
\* Local observations: initializeStorage (lines 273-290),
\* handleObservationSubmit (lines 1469-1499), saveObservation (lines
\* 1505-1526), saveToIndexedDB (lines 1870-1874)
\* ------------------------------------------------------------------------
\* CONFIG.APP.MAX_OBSERVATIONS
MAX_OBSERVATIONS == 50

\* frames the call stack of the engine holds: a call beyond them throws a
\* RangeError
MaxStack == 3

\* observation forms submitted
MaxSubmits == 3

\* the observation types of the form
ObservationTypes == {"rain", "wind", "other"}

\* storage after initializeStorage in a browser that has IndexedDB:
\* useLocalStorage is never assigned there (FALSE stands for undefined, the
\* code only tests !this.useLocalStorage); items is the parsed content of
\* the localStorage key 'weather-observations', and lastSubmit logs how the
\* last submission ended
BrowserStorage ==
    [initialized |-> TRUE, useLocalStorage |-> FALSE, items |-> <<>>,
     submits |-> 0, lastSubmit |-> NoValue]

\* initializeStorage: 'indexedDB' in window or not
initializeStorage(hasIndexedDB) ==
    /\ ~storage.initialized
    /\ storage' = [storage EXCEPT !.initialized = TRUE,
                                  !.useLocalStorage = ~hasIndexedDB]
    /\ UNCHANGED <<boot, currentLocation, weatherData, settings, changeListeners,
                   isLoading, refreshTimer, intervals, cycles, abandoned, search,
                   geo, lastCycle>>

RECURSIVE saveObservation(_, _, _, _, _)
\* saveToIndexedDB: returns this.saveObservation(observation); frames is the
\* number of frames on the call stack when the function is entered
saveToIndexedDB(useLocalStorage, items, observation, writable, frames) ==
    IF frames > MaxStack THEN Thrown
    ELSE saveObservation(useLocalStorage, items, observation, writable, frames + 1)

\* saveObservation: the list to store, or Thrown when the catch block has
\* rethrown; writable says whether localStorage.setItem succeeds
saveObservation(useLocalStorage, items, observation, writable, frames) ==
    IF frames > MaxStack THEN Thrown
    ELSE IF ~useLocalStorage
        THEN saveToIndexedDB(useLocalStorage, items, observation, writable, frames + 1)
    ELSE IF ~writable THEN Thrown
    ELSE [items |-> Slice(<<observation>> \o items, MAX_OBSERVATIONS)]

\* the observation built from the form at moment now
Observation(type, now, loc) ==
    [id |-> now, type |-> type,
     location |-> IF loc = NoLocation THEN "Unknown" ELSE loc]

\* handleObservationSubmit: the calls of saveObservation and saveToIndexedDB
\* run on the stack of the handler, and every await above them is on a
\* promise already settled
handleObservationSubmit(type, now, writable) ==
    /\ storage.initialized
    /\ storage.submits < MaxSubmits
    /\ \E saved \in {saveObservation(storage.useLocalStorage, storage.items,
                                     Observation(type, now, currentLocation),
                                     writable, 1)} :
          storage' = [storage EXCEPT
              !.submits = @ + 1,
              !.items = IF Threw(saved) THEN @ ELSE saved.items,
              !.lastSubmit =
                  [observation |-> Observation(type, now, currentLocation),
                   writable |-> writable,
                   before |-> storage.items,
                   outcome |-> IF Threw(saved) THEN "failed" ELSE "saved"]]
    /\ UNCHANGED <<boot, currentLocation, weatherData, settings, changeListeners,
                   isLoading, refreshTimer, intervals, cycles, abandoned, search,
                   geo, lastCycle>>

InitialWeatherData ==
    [current |-> Null, hourly |-> <<>>, daily |-> <<>>, alerts |-> <<>>,
     airQuality |-> Null]

Init ==
    /\ boot = "constructed"
    /\ currentLocation = NoLocation
    /\ weatherData = InitialWeatherData
    /\ settings = [AUTO_REFRESH |-> TRUE]
    /\ changeListeners = 0
    /\ storage = BrowserStorage
    /\ isLoading = FALSE
    /\ refreshTimer = 0
    /\ intervals = {}
    /\ cycles = <<>>
    /\ abandoned = 0
    /\ search = "idle"
    /\ geo = [st |-> "idle", caller |-> "none"]
    /\ lastCycle = NoCycle

\* ------------------------------------------------------------------------
\* One loadWeatherData invocation: the five promises of lines 506-512
\* ------------------------------------------------------------------------
\* fetchGovernmentAlerts outside the US returns the demo alerts without a
\* request
LaunchState(f, loc) ==
    IF f = AL /\ Country(loc) /= "US" THEN "fulfilled" ELSE "requesting"

LaunchValue(f, loc) ==
    IF f = AL /\ Country(loc) /= "US" THEN DemoAlerts ELSE NoValue

NewCycle(loc) ==
    [loc |-> loc,
     st |-> [f \in Fetches |-> LaunchState(f, loc)],
     value |-> [f \in Fetches |-> LaunchValue(f, loc)]]

IsSettled(cy, f) == cy.st[f] \in {"fulfilled", "rejected"}

\* variant: Promise.all, which resolves when all are fulfilled and rejects
\* as soon as one rejects
AllFulfilledOrOneRejected(cy) ==
    \/ \A f \in Fetches : cy.st[f] = "fulfilled"
    \/ \E f \in Fetches : cy.st[f] = "rejected"

\* Promise.allSettled(promises) resolves
AllSettled(cy) == \A f \in Fetches : IsSettled(cy, f)

Requesting(cy, f) == cy.st[f] \in {"requesting", "requesting2"}

Reading(cy, f) == cy.st[f] \in {"reading", "reading2"}

Stage(cy, f) == IF cy.st[f] \in {"requesting2", "reading2"} THEN 2 ELSE 1

Fulfil(cy, f, v) == [cy EXCEPT !.st[f] = "fulfilled", !.value[f] = v]

Reject(cy, f) == [cy EXCEPT !.st[f] = "rejected"]

\* an awaited step of fetch f throws: the catch block of the fetch function
FetchCatch(cy, f) ==
    IF f \in WeatherFetches THEN Reject(cy, f)
    ELSE IF f = AQ
         THEN (IF Stage(cy, f) = 1 THEN [cy EXCEPT !.st[f] = "requesting2"]
               ELSE Reject(cy, f))
    ELSE Fulfil(cy, f, AlertsUnavailable)

\* fetchWithTimeout resolves with a response whose status is ok or not
FetchResponse(cy, f, ok) ==
    IF f = AL /\ ~ok THEN FetchCatch(cy, f)
    ELSE [cy EXCEPT !.st[f] = IF Stage(cy, f) = 1 THEN "reading" ELSE "reading2"]

ValueOf(f, stage, body) ==
    IF f = OWM THEN fetchOpenWeatherMapData(body)
    ELSE IF f = WB THEN fetchWeatherbitData(body)
    ELSE IF f = OM THEN fetchOpenMeteoData(body)
    ELSE IF f = AQ THEN (IF stage = 1 THEN fetchAirQualityData(body)
                         ELSE fetchAirQualityFallback(body))
    ELSE fetchGovernmentAlerts(body)

\* response.json() resolves with the parsed body
FetchBody(cy, f, body) ==
    IF Threw(ValueOf(f, Stage(cy, f), body)) THEN FetchCatch(cy, f)
    ELSE Fulfil(cy, f, ValueOf(f, Stage(cy, f), body))

ResultOf(cy, f) ==
    IF cy.st[f] = "fulfilled" THEN [status |-> "fulfilled", value |-> cy.value[f]]
    ELSE IF cy.st[f] = "rejected" THEN [status |-> "rejected"]
    ELSE [status |-> "pending"]

Results(cy) == [f \in Fetches |-> ResultOf(cy, f)]

\* ------------------------------------------------------------------------
\* The display updates of lines 520-524 read the held data; a property read
\* on undefined throws
\* ------------------------------------------------------------------------
updateWeatherDisplay(wd) ==
    IF IsNull(wd.current) THEN FALSE
    ELSE wd.current.description = Undefined

updateAirQualityDisplay(wd) ==
    IF IsNull(wd.airQuality) THEN FALSE
    ELSE IF wd.airQuality.data = Undefined THEN TRUE
    ELSE IF wd.airQuality.source = "openweathermap"
         THEN ~("main" \in DOMAIN wd.airQuality.data[1])
    ELSE FALSE

DisplayThrows(wd) == updateWeatherDisplay(wd) \/ updateAirQualityDisplay(wd)

\* ------------------------------------------------------------------------
\* updateHealthTips: the tips shown for the reading and the air-quality
\* record held.  A comparison with undefined (or NaN) is false.
\* ------------------------------------------------------------------------
\* x > n
Gt(x, n) == x /= Undefined /\ x[1] > n

\* x < n
Lt(x, n) == x /= Undefined /\ x[1] < n

\* the index compared with 100 (line 1295); the record is set and has data
AqiOf(aq) ==
    IF aq.source = "openweathermap" THEN Get(aq.data[1].main, "aqi")
    ELSE Get(aq.data[1], "us_aqi")

\* variant: the wind rule is evaluated first
RuleTipsWindFirst(weather, aq) ==
    (IF Gt(weather.windSpeed, 2500) THEN <<"wind">> ELSE <<>>)
    \o (IF OrZero(weather.uvIndex) >= 300 THEN <<"uv">> ELSE <<>>)
    \o (IF Gt(weather.temperature, 3000) THEN <<"heat">>
        ELSE IF Lt(weather.temperature, 0) THEN <<"freeze">> ELSE <<>>)
    \o (IF Gt(weather.humidity, 7000) THEN <<"humid">>
        ELSE IF Lt(weather.humidity, 3000) THEN <<"dry">> ELSE <<>>)
    \o (IF IsNull(aq) THEN <<>>
        ELSE IF aq.data = Undefined THEN <<>>
        ELSE IF Gt(AqiOf(aq), 100) THEN <<"air">> ELSE <<>>)

\* the tips pushed by the rules of lines 1273-1304, in their order
RuleTips(weather, aq) ==
    (IF OrZero(weather.uvIndex) >= 300 THEN <<"uv">> ELSE <<>>)
    \o (IF Gt(weather.temperature, 3000) THEN <<"heat">>
        ELSE IF Lt(weather.temperature, 0) THEN <<"freeze">> ELSE <<>>)
    \o (IF Gt(weather.humidity, 7000) THEN <<"humid">>
        ELSE IF Lt(weather.humidity, 3000) THEN <<"dry">> ELSE <<>>)
    \o (IF IsNull(aq) THEN <<>>
        ELSE IF aq.data = Undefined THEN <<>>
        ELSE IF Gt(AqiOf(aq), 100) THEN <<"air">> ELSE <<>>)
    \o (IF Gt(weather.windSpeed, 2500) THEN <<"wind">> ELSE <<>>)

\* variant: the default tip is pushed whatever the rules pushed
updateHealthTipsAlwaysDefault(wd) ==
    IF IsNull(wd.current) THEN <<>>
    ELSE RuleTips(wd.current, wd.airQuality) \o <<"default">>

\* the tips written to the page; none are written without a reading
updateHealthTips(wd) ==
    IF IsNull(wd.current) THEN <<>>
    ELSE IF RuleTips(wd.current, wd.airQuality) = <<>> THEN <<"default">>
    ELSE RuleTips(wd.current, wd.airQuality)

\* ------------------------------------------------------------------------
\* updateAlertsDisplay: the alerts card lists every alert, the banner the
\* severe ones
\* ------------------------------------------------------------------------
\* String.prototype.toLowerCase on the severities the alerts carry
toLowerCase(s) ==
    IF s \in {"Severe", "SEVERE"} THEN "severe"
    ELSE IF s \in {"Extreme", "EXTREME"} THEN "extreme"
    ELSE IF s \in {"Critical", "CRITICAL"} THEN "critical"
    ELSE IF s = "Moderate" THEN "moderate"
    ELSE IF s = "Minor" THEN "minor"
    ELSE IF s = "Unknown" THEN "unknown"
    ELSE s

\* alert.properties || alert
PropertiesOf(alert) == IF "properties" \in DOMAIN alert THEN alert.properties ELSE alert

\* the item the card shows for an alert (lines 1334-1356)
AlertCardItem(alert) ==
    [title |-> Get(PropertiesOf(alert), "event"),
     severity |-> Get(PropertiesOf(alert), "severity")]

alertsCard(alerts) == [i \in 1..Len(alerts) |-> AlertCardItem(alerts[i])]

\* alert.properties?.severity?.toLowerCase()
FilterSeverity(alert) ==
    IF ~("properties" \in DOMAIN alert) THEN Undefined
    ELSE IF Get(alert.properties, "severity") = Undefined THEN Undefined
    ELSE Text(toLowerCase(alert.properties.severity[1]))

IsSevereForFilter(alert) ==
    FilterSeverity(alert) \in {Text("severe"), Text("extreme"), Text("critical")}

\* the alerts the banner shows (lines 1369-1372)
severeAlerts(alerts) == SelectSeq(alerts, IsSevereForFilter)

\* ------------------------------------------------------------------------
\* setupAutoRefresh
\* ------------------------------------------------------------------------
\* the id setInterval returns
NewInterval(armed) == CHOOSE id \in 1..(Cardinality(armed) + 1) : id \notin armed

\* clearInterval(this.refreshTimer) when this.refreshTimer is set
Cleared(timer, armed) == IF timer /= 0 THEN armed \ {timer} ELSE armed

\* variant: the timer held is not cancelled before the next is armed
setupAutoRefreshWithoutClear(timer, armed, autoRefresh) ==
    IF autoRefresh
    THEN [timer |-> NewInterval(armed), armed |-> armed \cup {NewInterval(armed)}]
    ELSE [timer |-> timer, armed |-> armed]

\* variant: the timer is armed whatever the setting
setupAutoRefreshWhateverSetting(timer, armed, autoRefresh) ==
    [timer |-> NewInterval(Cleared(timer, armed)),
     armed |-> Cleared(timer, armed) \cup {NewInterval(Cleared(timer, armed))}]

\* this.refreshTimer and the armed timers after setupAutoRefresh has run
\* with this.refreshTimer = timer, the timers armed and the setting
\* autoRefresh
setupAutoRefresh(timer, armed, autoRefresh) ==
    IF autoRefresh
    THEN [timer |-> NewInterval(Cleared(timer, armed)),
          armed |-> Cleared(timer, armed) \cup {NewInterval(Cleared(timer, armed))}]
    ELSE [timer |-> timer, armed |-> Cleared(timer, armed)]

\* a call of this.setupAutoRefresh()
CallSetupAutoRefresh(autoRefresh) ==
    \E after \in {setupAutoRefresh(refreshTimer, intervals, autoRefresh)} :
        /\ refreshTimer' = after.timer
        /\ intervals' = after.armed

Remove(seq, i) == SubSeq(seq, 1, i - 1) \o SubSeq(seq, i + 1, Len(seq))

\* loadWeatherData from the resolution of allSettled to the end of its
\* finally block, for the invocation at position i whose fetches are cy;
\* the continuation of its caller only hides the loading overlay again
FinishCycle(i, cy, now) ==
    \E p \in {processEnsembleData(weatherData, Results(cy), now)} :
      \E aborted \in {p.threw \/ DisplayThrows(p.wd)} :
        /\ weatherData' = p.wd
        /\ IF aborted
           THEN UNCHANGED <<refreshTimer, intervals>>
           ELSE CallSetupAutoRefresh(settings.AUTO_REFRESH)
        /\ isLoading' = FALSE
        /\ cycles' = Remove(cycles, i)
        /\ lastCycle' = [loc |-> cy.loc, results |-> Results(cy),
                         before |-> weatherData, aborted |-> aborted,
                         error |-> aborted, now |-> now,
                         autoRefresh |-> settings.AUTO_REFRESH,
                         armedBefore |-> intervals,
                         tips |-> IF aborted THEN <<>> ELSE updateHealthTips(p.wd),
                         alertsCard |-> IF aborted THEN <<>> ELSE alertsCard(p.wd.alerts),
                         severeAlerts |-> IF aborted THEN <<>>
                                          ELSE severeAlerts(p.wd.alerts)]

\* the event loop runs the handler of one network event of invocation i,
\* which leaves its fetches as cy, and every continuation that becomes ready
Continue(i, cy) ==
    IF AllSettled(cy)
    THEN \E now \in Clock : FinishCycle(i, cy, now)
    ELSE /\ cycles' = [cycles EXCEPT ![i] = cy]
         /\ UNCHANGED <<weatherData, refreshTimer, intervals, isLoading, lastCycle>>

\* ------------------------------------------------------------------------
\* Network events of one invocation (fetchWithTimeout races fetch(url)
\* against a timer; the requests a fetch function sends together through
\* Promise.all are one request here, and so are the bodies it reads one
\* after the other)
\* ------------------------------------------------------------------------
Others == <<boot, currentLocation, settings, changeListeners, storage, search, geo>>

\* the response arrives before the timer fires
ResponseArrives(i, f, ok) ==
    /\ Requesting(cycles[i], f)
    /\ Continue(i, FetchResponse(cycles[i], f, ok))
    /\ UNCHANGED <<abandoned, Others>>

\* fetch(url) rejects (no connection)
RequestFails(i, f) ==
    /\ Requesting(cycles[i], f)
    /\ Continue(i, FetchCatch(cycles[i], f))
    /\ UNCHANGED <<abandoned, Others>>

\* the timer fires first: the race rejects with "Request timeout", the
\* request itself is still under way
TimerFires(i, f) ==
    /\ Requesting(cycles[i], f)
    /\ Continue(i, FetchCatch(cycles[i], f))
    /\ abandoned' = Min(abandoned + 1, MaxAbandoned)
    /\ UNCHANGED Others

\* response.json() resolves
BodyArrives(i, f, body) ==
    /\ Reading(cycles[i], f)
    /\ Continue(i, FetchBody(cycles[i], f, body))
    /\ UNCHANGED <<abandoned, Others>>

\* response.json() rejects (the body is not JSON, the connection drops)
BodyFails(i, f) ==
    /\ Reading(cycles[i], f)
    /\ Continue(i, FetchCatch(cycles[i], f))
    /\ UNCHANGED <<abandoned, Others>>

\* variant: the completion of a request that lost its race is taken for the
\* response of a fetch the timer had failed
LateResponseRevives ==
    /\ abandoned > 0
    /\ abandoned' = abandoned - 1
    /\ \E i \in 1..Len(cycles) : \E f \in WeatherFetches :
          /\ cycles[i].st[f] = "rejected"
          /\ cycles' = [cycles EXCEPT ![i].st[f] = "reading"]
    /\ UNCHANGED <<weatherData, refreshTimer, intervals, isLoading, lastCycle,
                   boot, currentLocation, settings, changeListeners, storage, search, geo>>

\* a request that lost its race completes: the race is already settled
LateResponse ==
    /\ abandoned > 0
    /\ abandoned' = abandoned - 1
    /\ UNCHANGED <<cycles, weatherData, refreshTimer, intervals, isLoading,
                   lastCycle, Others>>

\* ------------------------------------------------------------------------
\* The network answers every request of one invocation in one burst
\* ------------------------------------------------------------------------
Scripts == {"good", "weatherDown", "malformed"}

\* the launched fetch f runs to its end: answered with the well-formed body
SettleGood(cy, f) ==
    IF IsSettled(cy, f) THEN cy
    ELSE FetchBody(FetchResponse(cy, f, TRUE), f, GoodBody(f, 1, cy.loc))

RECURSIVE Burst(_, _, _)
Burst(cy, script, order) ==
    IF order = <<>> THEN cy
    ELSE LET f == Head(order)
             next == IF script = "weatherDown" /\ f \in WeatherFetches
                     THEN FetchCatch(cy, f)
                     ELSE IF script = "malformed" /\ f = OWM
                     THEN FetchBody(FetchResponse(cy, f, TRUE), f, OWMErrorBodies)
                     ELSE SettleGood(cy, f)
         IN  Burst(next, script, Tail(order))

NetworkBurst(i, script) ==
    /\ \A f \in Fetches : cycles[i].st[f] = LaunchState(f, cycles[i].loc)
    /\ \E now \in Clock, cy \in {Burst(cycles[i], script, <<OWM, WB, OM, AQ, AL>>)} :
          FinishCycle(i, cy, now)
    /\ UNCHANGED <<abandoned, Others>>

\* ------------------------------------------------------------------------
\* Handlers
\* ------------------------------------------------------------------------
\* loadWeatherData up to its await
loadWeatherData(loc) ==
    IF loc = NoLocation
    THEN UNCHANGED <<cycles, isLoading, lastCycle>>
    ELSE /\ cycles' = Append(cycles, NewCycle(loc))
         /\ isLoading' = TRUE
         /\ lastCycle' = NoCycle

CanLaunch == Len(cycles) < MaxInFlight

\* initializeLocation: saved is what getSavedLocation returns
InitializeLocation(saved) ==
    /\ boot = "constructed"
    /\ boot' = "done"
    /\ IF saved /= NoLocation
       THEN /\ CanLaunch
            /\ currentLocation' = saved
            /\ loadWeatherData(saved)
            /\ UNCHANGED geo
       ELSE /\ geo.st = "idle"
            /\ isLoading' = TRUE
            /\ geo' = [st |-> "locating", caller |-> "init"]
            /\ UNCHANGED <<currentLocation, cycles, lastCycle>>
    /\ UNCHANGED <<weatherData, settings, changeListeners, storage, refreshTimer, intervals, abandoned,
                   search>>

RefreshKinds == {"button", "interval", "online", "visibility"}

\* refreshWeatherData, called by the refresh button, the auto-refresh
\* interval, the online event and the visibilitychange handler
refreshWeatherData(kind) ==
    /\ kind = "interval" => intervals /= {}
    /\ IF isLoading
       THEN UNCHANGED <<cycles, isLoading, lastCycle>>
       ELSE /\ currentLocation /= NoLocation => CanLaunch
            /\ loadWeatherData(currentLocation)
    /\ UNCHANGED <<boot, currentLocation, weatherData, settings, changeListeners, storage, refreshTimer,
                   intervals, abandoned, search, geo>>

\* getCurrentLocation called by the location button
getCurrentLocation ==
    /\ geo.st = "idle"
    /\ isLoading' = TRUE
    /\ geo' = [st |-> "locating", caller |-> "button"]
    /\ UNCHANGED <<boot, currentLocation, weatherData, settings, changeListeners, storage, refreshTimer,
                   intervals, cycles, abandoned, search, lastCycle>>

\* the success callback up to its await of reverseGeocode
GeoPosition ==
    /\ geo.st = "locating"
    /\ geo' = [geo EXCEPT !.st = "geocoding"]
    /\ UNCHANGED <<boot, currentLocation, weatherData, settings, changeListeners, storage, isLoading,
                   refreshTimer, intervals, cycles, abandoned, search, lastCycle>>

\* reverseGeocode returns (it catches its own errors)
GeoNamed(loc) ==
    /\ geo.st = "geocoding"
    /\ CanLaunch
    /\ currentLocation' = loc
    /\ loadWeatherData(loc)
    /\ geo' = [st |-> "idle", caller |-> "none"]
    /\ UNCHANGED <<boot, weatherData, settings, changeListeners, storage, refreshTimer, intervals, abandoned,
                   search>>

\* the error callback: showError and reject; initializeLocation catches the
\* rejection and falls back to New York, the button's listener does not
GeoError ==
    /\ geo.st = "locating"
    /\ geo' = [st |-> "idle", caller |-> "none"]
    /\ IF geo.caller = "init"
       THEN /\ CanLaunch
            /\ currentLocation' = "New York"
            /\ loadWeatherData("New York")
       ELSE UNCHANGED <<currentLocation, cycles, isLoading, lastCycle>>
    /\ UNCHANGED <<boot, weatherData, settings, changeListeners, storage, refreshTimer, intervals, abandoned,
                   search>>

\* handleLocationSearch up to its await of searchLocations
handleLocationSearch ==
    /\ search = "idle"
    /\ search' = "searching"
    /\ isLoading' = TRUE
    /\ UNCHANGED <<boot, currentLocation, weatherData, settings, changeListeners, storage, refreshTimer,
                   intervals, cycles, abandoned, geo, lastCycle>>

SearchOutcomes == Locations \cup {"notFound", "error"}

\* searchLocations returns or throws
SearchResult(r) ==
    /\ search = "searching"
    /\ search' = "idle"
    /\ IF r \in Locations
       THEN /\ CanLaunch
            /\ currentLocation' = r
            /\ loadWeatherData(r)
       ELSE /\ isLoading' = FALSE
            /\ UNCHANGED <<currentLocation, cycles, lastCycle>>
    /\ UNCHANGED <<boot, weatherData, settings, changeListeners, storage, refreshTimer, intervals, abandoned,
                   geo>>

\* loadSettings, called by init before any listener is attached, so before
\* anything else has happened: saved is the auto-refresh setting found in
\* localStorage
loadSettings(saved) ==
    /\ boot = "constructed"
    /\ currentLocation = NoLocation
    /\ search = "idle"
    /\ geo.st = "idle"
    /\ ~isLoading
    /\ changeListeners = 0
    /\ settings' = [settings EXCEPT !.AUTO_REFRESH = saved]
    /\ UNCHANGED <<boot, currentLocation, weatherData, changeListeners, storage, isLoading,
                   refreshTimer, intervals, cycles, abandoned, search, geo,
                   lastCycle>>

\* settings dialogs that may be opened
MaxOpenings == 2

\* openSettings: setupSettingsHandlers attaches one more change listener to
\* the auto-refresh checkbox, which shows the setting
OpenSettings ==
    /\ changeListeners < MaxOpenings
    /\ changeListeners' = changeListeners + 1
    /\ UNCHANGED <<boot, currentLocation, weatherData, settings, storage, isLoading,
                   refreshTimer, intervals, cycles, abandoned, search, geo,
                   lastCycle>>

RECURSIVE ChangeListenersRun(_, _, _)
\* the timers after k listeners have in turn called setupAutoRefresh, from
\* this.refreshTimer and the armed timers held in s
ChangeListenersRun(k, s, checked) ==
    IF k = 0 THEN s
    ELSE ChangeListenersRun(k - 1, setupAutoRefresh(s.timer, s.armed, checked), checked)

\* a change event of the auto-refresh checkbox: every listener attached
\* stores the setting and calls setupAutoRefresh
ToggleAutoRefresh(checked) ==
    /\ changeListeners >= 1
    /\ checked /= settings.AUTO_REFRESH
    /\ settings' = [settings EXCEPT !.AUTO_REFRESH = checked]
    /\ \E after \in {ChangeListenersRun(changeListeners,
                                         [timer |-> refreshTimer, armed |-> intervals],
                                         checked)} :
          /\ refreshTimer' = after.timer
          /\ intervals' = after.armed
    /\ UNCHANGED <<boot, currentLocation, weatherData, changeListeners, storage, isLoading,
                   cycles, abandoned, search, geo, lastCycle>>

\* ------------------------------------------------------------------------
\* Specifications
\* ------------------------------------------------------------------------
\* the application under every trigger that starts a cycle, the network
\* answering in bursts
Next ==
    \/ \E saved \in Locations \cup {NoLocation} : InitializeLocation(saved)
    \/ \E kind \in RefreshKinds : refreshWeatherData(kind)
    \/ getCurrentLocation
    \/ GeoPosition
    \/ \E loc \in Locations : GeoNamed(loc)
    \/ GeoError
    \/ handleLocationSearch
    \/ \E r \in SearchOutcomes : SearchResult(r)
    \/ \E i \in 1..Len(cycles), script \in Scripts : NetworkBurst(i, script)

Spec == Init /\ [][Next]_vars

\* the events the browser delivers by itself: the tick of an armed
\* setInterval, one of the two callbacks of getCurrentPosition (its timeout
\* option is set, line 381), and, granted here, the answers of the network
\* (while a cycle is in flight, some cycle ends: the weak fairness of
\* NetworkBurst, which is enabled whenever a cycle is in flight); the user's
\* clicks and submissions may or may not come
FairSpec ==
    /\ Spec
    /\ WF_vars(refreshWeatherData("interval"))
    /\ WF_vars(GeoPosition \/ GeoError)
    /\ WF_vars(\E loc \in Locations : GeoNamed(loc))
    /\ WF_vars(\E r \in SearchOutcomes : SearchResult(r))
    /\ \/ []<>(cycles = <<>>)
       \/ []<><<Len(cycles') < Len(cycles)>>_vars

\* the settings dialog, with the triggers that start cycles at a location
\* already known (start-up, refresh, location search) and the network
\* answering in bursts
SettingsNext ==
    \/ \E saved \in BOOLEAN : loadSettings(saved)
    \/ \E saved \in Locations : InitializeLocation(saved)
    \/ \E kind \in RefreshKinds : refreshWeatherData(kind)
    \/ handleLocationSearch
    \/ \E r \in SearchOutcomes : SearchResult(r)
    \/ OpenSettings
    \/ \E checked \in BOOLEAN : ToggleAutoRefresh(checked)
    \/ \E i \in 1..Len(cycles), script \in Scripts : NetworkBurst(i, script)

SettingsSpec == Init /\ [][SettingsNext]_vars

\* the invocation of loadWeatherData at start-up, the network delivering
\* event by event
CycleNext ==
    \/ \E saved \in Locations : InitializeLocation(saved)
    \/ \E i \in 1..Len(cycles), f \in Fetches, ok \in BOOLEAN : ResponseArrives(i, f, ok)
    \/ \E i \in 1..Len(cycles), f \in Fetches : RequestFails(i, f)
    \/ \E i \in 1..Len(cycles), f \in Fetches : TimerFires(i, f)
    \/ \E i \in 1..Len(cycles), f \in Fetches :
          \E body \in Bodies(f, Stage(cycles[i], f), cycles[i].loc) : BodyArrives(i, f, body)
    \/ \E i \in 1..Len(cycles), f \in Fetches : BodyFails(i, f)
    \/ LateResponse

CycleSpec == Init /\ [][CycleNext]_vars

\* the timer of fetchWithTimeout is a setTimeout: it fires unless the race
\* was settled before; nothing makes the network answer
FairCycleSpec ==
    /\ CycleSpec
    /\ \A f \in Fetches : WF_vars(\E i \in 1..Len(cycles) : TimerFires(i, f))

\* ------------------------------------------------------------------------
\* A later cycle: the data of an earlier cycle are held, a refresh has called
\* loadWeatherData for the same location, the network delivers event by
\* event
\* ------------------------------------------------------------------------
\* the earlier cycle, every fetch answered, with the readings of that time
EarlierCycle(loc) ==
    Fulfil(Fulfil(Fulfil(Fulfil(Fulfil(NewCycle(loc),
        OWM, ValueOf(OWM, 1, OWMBody(1500))),
        WB, ValueOf(WB, 1, WBBody(1700, 1, 1))),
        OM, ValueOf(OM, 1, OMBody(1900, 1, 1))),
        AQ, ValueOf(AQ, 1, AQOwmBody(4))),
        AL, ValueOf(AL, 1, ALBody(<<Alert("Heat Advisory", "Moderate")>>)))

\* the data held when the earlier cycle has ended
HeldData(loc) == processEnsembleData(InitialWeatherData, Results(EarlierCycle(loc)), 1).wd

HeldCycleInit ==
    /\ boot = "done"
    /\ currentLocation = "New York"
    /\ weatherData = HeldData(currentLocation)
    /\ settings = [AUTO_REFRESH |-> TRUE]
    /\ changeListeners = 0
    /\ storage = BrowserStorage
    /\ isLoading = TRUE
    /\ refreshTimer = 1
    /\ intervals = {1}
    /\ cycles = <<NewCycle(currentLocation)>>
    /\ abandoned = 0
    /\ search = "idle"
    /\ geo = [st |-> "idle", caller |-> "none"]
    /\ lastCycle = NoCycle

HeldCycleNext ==
    \/ \E i \in 1..Len(cycles), f \in Fetches, ok \in BOOLEAN : ResponseArrives(i, f, ok)
    \/ \E i \in 1..Len(cycles), f \in Fetches : RequestFails(i, f)
    \/ \E i \in 1..Len(cycles), f \in Fetches : TimerFires(i, f)
    \/ \E i \in 1..Len(cycles), f \in Fetches :
          \E body \in Bodies(f, Stage(cycles[i], f), cycles[i].loc) : BodyArrives(i, f, body)
    \/ \E i \in 1..Len(cycles), f \in Fetches : BodyFails(i, f)
    \/ LateResponse

HeldCycleSpec == HeldCycleInit /\ [][HeldCycleNext]_vars

\* ------------------------------------------------------------------------
\* The aggregation on its own: Promise.allSettled has resolved with results
\* drawn from the input sets and loadWeatherData goes on from line 517
\* ------------------------------------------------------------------------
\* temperatures (hundredths) a provider may report
AggTemps == {-100, -50, 1000, 1100, 1234, 2000, 2200}

AggBody(f, t) ==
    IF f = OWM THEN OWMBody(t)
    ELSE IF f = WB THEN WBBody(t, 1, 1)
    ELSE OMBody(t, 1, 1)

\* the object r without its property k
Without(r, k) == [x \in DOMAIN r \ {k} |-> r[x]]

\* a well-formed answer of provider f in which only the temperature of the
\* current conditions is missing
BodyWithoutTemperature(f) ==
    IF f = OWM THEN [OWMBody(1000) EXCEPT !.current.main = Without(@, "temp")]
    ELSE IF f = WB
    THEN [WBBody(1000, 1, 1) EXCEPT
             !.current.data = <<Without(WBCurrentRecord(1000), "temp")>>]
    ELSE [OMBody(1000, 1, 1) EXCEPT !.current = Without(@, "temperature_2m")]

\* the outcomes of one weather fetch: rejected, or fulfilled with a reading
\* or with an answer that lacks the temperature
AggOutcomes(cy, f) ==
    {Reject(cy, f)}
        \cup {Fulfil(cy, f, ValueOf(f, 1, AggBody(f, t))) : t \in AggTemps}
        \cup {Fulfil(cy, f, ValueOf(f, 1, BodyWithoutTemperature(f)))}

\* the invocations whose five fetches have all settled
AggCycles(loc) ==
    LET c0 == Fulfil(Fulfil(NewCycle(loc), AQ, ValueOf(AQ, 1, GoodBody(AQ, 1, loc))),
                     AL, ValueOf(AL, 1, GoodBody(AL, 1, loc)))
    IN  UNION {UNION {AggOutcomes(c2, OM) : c2 \in AggOutcomes(c1, WB)} :
                  c1 \in AggOutcomes(c0, OWM)}

\* the data held from an earlier cycle
HeldBefore ==
    {InitialWeatherData,
     [InitialWeatherData EXCEPT
        !.current = normalizeOpenWeatherMapData(OWMCurrentBody(1500))]}

AggInit ==
    /\ boot = "done"
    /\ currentLocation = "New York"
    /\ weatherData \in HeldBefore
    /\ settings = [AUTO_REFRESH |-> TRUE]
    /\ changeListeners = 0
    /\ storage = BrowserStorage
    /\ isLoading = TRUE
    /\ refreshTimer = 0
    /\ intervals = {}
    /\ cycles \in {<<cy>> : cy \in AggCycles(currentLocation)}
    /\ abandoned = 0
    /\ search = "idle"
    /\ geo = [st |-> "idle", caller |-> "none"]
    /\ lastCycle = NoCycle

\* the continuation of loadWeatherData after its await (lines 517-542)
AllSettledResolves(i) ==
    /\ AllSettled(cycles[i])
    /\ \E now \in Clock : FinishCycle(i, cycles[i], now)
    /\ UNCHANGED <<abandoned, Others>>

AggNext == \E i \in 1..Len(cycles) : AllSettledResolves(i)

AggSpec == AggInit /\ [][AggNext]_vars

\* ------------------------------------------------------------------------
\* The forecast series on their own: Promise.allSettled has resolved, the
\* Weatherbit and Open-Meteo results carrying series of every length drawn
\* from the input sets
\* ------------------------------------------------------------------------
\* lengths of the hourly and daily series a provider may send
HourlyLengths == {0, 3, 24, 26}

DailyLengths == {0, 3, 7, 10}

\* nh and nd are the lengths of the series sent, or undefined for a forecast
\* answer without a data array
WBForecastBody(nh, nd) ==
    [current |-> [data |-> <<WBCurrentRecord(2000)>>],
     daily |-> IF nd = Undefined THEN ErrorBody ELSE [data |-> WBSeries(2000, nd[1])],
     hourly |-> IF nh = Undefined THEN ErrorBody ELSE [data |-> WBSeries(2000, nh[1])]]

ForecastOutcomes(cy, f) ==
    {Reject(cy, f)} \cup
    (IF f = OWM THEN {Fulfil(cy, f, ValueOf(f, 1, OWMBody(1800)))}
     ELSE IF f = WB
     THEN {Fulfil(cy, f, ValueOf(f, 1, WBForecastBody(nh, nd))) :
              nh \in {Undefined} \cup {Num(n) : n \in HourlyLengths},
              nd \in {Undefined} \cup {Num(n) : n \in DailyLengths}}
     ELSE {Fulfil(cy, f, ValueOf(f, 1, OMBody(2200, nh, nd))) :
              nh \in HourlyLengths \ {24}, nd \in DailyLengths \ {7}})

ForecastCycles(loc) ==
    LET c0 == Fulfil(Fulfil(NewCycle(loc), AQ, ValueOf(AQ, 1, GoodBody(AQ, 1, loc))),
                     AL, ValueOf(AL, 1, GoodBody(AL, 1, loc)))
    IN  UNION {UNION {ForecastOutcomes(c2, OM) : c2 \in ForecastOutcomes(c1, WB)} :
                  c1 \in ForecastOutcomes(c0, OWM)}

\* the data held from an earlier cycle, with or without forecast series
HeldSeries ==
    {InitialWeatherData,
     [InitialWeatherData EXCEPT !.hourly = WBSeries(1500, 2),
                                !.daily = WBSeries(1500, 2)]}

ForecastInit ==
    /\ boot = "done"
    /\ currentLocation = "New York"
    /\ weatherData \in HeldSeries
    /\ settings = [AUTO_REFRESH |-> TRUE]
    /\ changeListeners = 0
    /\ storage = BrowserStorage
    /\ isLoading = TRUE
    /\ refreshTimer = 0
    /\ intervals = {}
    /\ cycles \in {<<cy>> : cy \in ForecastCycles(currentLocation)}
    /\ abandoned = 0
    /\ search = "idle"
    /\ geo = [st |-> "idle", caller |-> "none"]
    /\ lastCycle = NoCycle

ForecastSpec == ForecastInit /\ [][AggNext]_vars

\* ------------------------------------------------------------------------
\* The alerts display on its own: Promise.allSettled has resolved, the
\* alerts result carrying a list drawn from the input sets
\* ------------------------------------------------------------------------
\* alerts a list may hold
MaxAlerts == 2

Severities == {"Severe", "extreme", "CRITICAL", "Moderate", "Minor", "Unknown"}

\* an alert that carries its fields directly
FlatAlert(event, severity) == [event |-> Text(event), severity |-> Text(severity)]

AlertRecords ==
    {Alert("Flood Warning", sev) : sev \in Severities}
        \cup {FlatAlert("Heat Advisory", sev) : sev \in Severities}
        \cup {[properties |-> [event |-> Text("Special Statement")]]}

AlertLists == UNION {[1..n -> AlertRecords] : n \in 0..MaxAlerts}

AlertsCycles(loc) ==
    {Fulfil(Fulfil(Fulfil(Fulfil(Fulfil(NewCycle(loc),
            OWM, ValueOf(OWM, 1, GoodBody(OWM, 1, loc))),
            WB, ValueOf(WB, 1, GoodBody(WB, 1, loc))),
            OM, ValueOf(OM, 1, GoodBody(OM, 1, loc))),
            AQ, ValueOf(AQ, 1, GoodBody(AQ, 1, loc))),
            AL, ValueOf(AL, 1, ALBody(alerts))) : alerts \in AlertLists}

AlertsInit ==
    /\ boot = "done"
    /\ currentLocation = "New York"
    /\ weatherData = InitialWeatherData
    /\ settings = [AUTO_REFRESH |-> TRUE]
    /\ changeListeners = 0
    /\ storage = BrowserStorage
    /\ isLoading = TRUE
    /\ refreshTimer = 0
    /\ intervals = {}
    /\ cycles \in {<<cy>> : cy \in AlertsCycles(currentLocation)}
    /\ abandoned = 0
    /\ search = "idle"
    /\ geo = [st |-> "idle", caller |-> "none"]
    /\ lastCycle = NoCycle

AlertsSpec == AlertsInit /\ [][AggNext]_vars

\* ------------------------------------------------------------------------
\* The tips on their own: Promise.allSettled has resolved, Weatherbit alone
\* reporting the conditions, with readings on both sides of every threshold
\* ------------------------------------------------------------------------
TipUvs == {200, 300, 500}

TipTemps == {-500, 0, 2000, 3000, 3500}

TipHumidities == {2000, 3000, 5000, 7000, 8000}

\* wind speeds in m/s: 9 and 36 km/h
TipWinds == {250, 1000}

\* air-quality indices of the 1-5 scale and of the 0-500 scale
TipIndices == {2, 4, 5}

TipUsIndices == {40, 100, 160}

TipsBody(uv, t, rh, wind) ==
    [current |-> [data |-> <<[WBCurrentRecord(t) EXCEPT
                                 !.uv = Num(uv), !.rh = Num(rh), !.wind_spd = Num(wind)]>>],
     daily |-> [data |-> WBSeries(t, 1)],
     hourly |-> [data |-> WBSeries(t, 1)]]

TipsWeather(cy) ==
    {Reject(cy, WB)} \cup
    {Fulfil(cy, WB, ValueOf(WB, 1, TipsBody(uv, t, rh, wind))) :
        uv \in TipUvs, t \in TipTemps, rh \in TipHumidities, wind \in TipWinds}

TipsAirQuality(cy) ==
    {Reject(cy, AQ)}
        \cup {Fulfil(cy, AQ, ValueOf(AQ, 1, AQOwmBody(aqi))) : aqi \in TipIndices}
        \cup {Fulfil(cy, AQ, ValueOf(AQ, 2, AQOmBody(aqi))) : aqi \in TipUsIndices}

TipsCycles(loc) ==
    UNION {TipsAirQuality(c) :
              c \in TipsWeather(Fulfil(Reject(Reject(NewCycle(loc), OWM), OM), AL,
                                       ValueOf(AL, 1, GoodBody(AL, 1, loc))))}

TipsInit ==
    /\ boot = "done"
    /\ currentLocation = "New York"
    /\ weatherData = InitialWeatherData
    /\ settings = [AUTO_REFRESH |-> TRUE]
    /\ changeListeners = 0
    /\ storage = BrowserStorage
    /\ isLoading = TRUE
    /\ refreshTimer = 0
    /\ intervals = {}
    /\ cycles \in {<<cy>> : cy \in TipsCycles(currentLocation)}
    /\ abandoned = 0
    /\ search = "idle"
    /\ geo = [st |-> "idle", caller |-> "none"]
    /\ lastCycle = NoCycle

TipsSpec == TipsInit /\ [][AggNext]_vars

\* ------------------------------------------------------------------------
\* Local observations on their own: the page has just been constructed, with
\* the observations an earlier visit left in localStorage
\* ------------------------------------------------------------------------
\* lists found in localStorage: none, one observation, MAX_OBSERVATIONS
StoredBefore ==
    {<<>>, <<Observation("rain", 1, "Delhi")>>,
     [i \in 1..MAX_OBSERVATIONS |-> Observation("wind", 1, "Delhi")]}

ObservationInit ==
    /\ boot = "constructed"
    /\ currentLocation = NoLocation
    /\ weatherData = InitialWeatherData
    /\ settings = [AUTO_REFRESH |-> TRUE]
    /\ changeListeners = 0
    /\ \E items \in StoredBefore :
          storage = [BrowserStorage EXCEPT !.initialized = FALSE, !.items = items]
    /\ isLoading = FALSE
    /\ refreshTimer = 0
    /\ intervals = {}
    /\ cycles = <<>>
    /\ abandoned = 0
    /\ search = "idle"
    /\ geo = [st |-> "idle", caller |-> "none"]
    /\ lastCycle = NoCycle

ObservationNext ==
    \/ \E hasIndexedDB \in BOOLEAN : initializeStorage(hasIndexedDB)
    \/ \E type \in ObservationTypes, now \in Clock, writable \in BOOLEAN :
          handleObservationSubmit(type, now, writable)

ObservationSpec == ObservationInit /\ [][ObservationNext]_vars

\* ------------------------------------------------------------------------
\* Properties
\* ------------------------------------------------------------------------
\* the fetch priority of the weather providers: primary, secondary, tertiary
Priority == <<OWM, WB, OM>>

ProviderName(f) ==
    IF f = OWM THEN "OpenWeatherMap"
    ELSE IF f = WB THEN "Weatherbit"
    ELSE "Open-Meteo"

\* a loadWeatherData invocation has ended and none has started since
Completed == lastCycle /= NoCycle

\* the weather providers whose fetch succeeded in the invocation that ended
Succeeded == {f \in WeatherFetches : lastCycle.results[f].status = "fulfilled"}

RECURSIVE InPriority(_, _)
\* the members of S in the order of the sequence order
InPriority(S, order) ==
    IF order = <<>> THEN <<>>
    ELSE (IF Head(order) \in S THEN <<Head(order)>> ELSE <<>>)
            \o InPriority(S, Tail(order))

\* the records of the succeeded providers, in priority order
Records ==
    LET ord == InPriority(Succeeded, Priority)
    IN  [i \in 1..Len(ord) |-> NormalizedOf(lastCycle.results, ord[i], lastCycle.now)]

RECURSIVE Total(_, _)
\* the sum of field k over the records, a missing field counting 0
Total(records, k) ==
    IF records = <<>> THEN 0
    ELSE OrZero(Get(Head(records), k)) + Total(Tail(records), k)

\* num / den rounded to the nearest integer, halves away from zero (den > 0)
RoundHalfAwayFromZero(num, den) ==
    IF num >= 0 THEN (2 * num + den) \div (2 * den)
    ELSE -((2 * (-num) + den) \div (2 * den))

\* the mean of field k over the records to one decimal place (hundredths)
MeanToOneDecimal(records, k) ==
    10 * RoundHalfAwayFromZero(Total(records, k), 10 * Len(records))

\* the consensus reading the specification requires over the succeeded providers:
\* absent for none, the record itself for one, else the means of the numeric
\* fields and the list of the providers in priority order
IsConsensusOfSucceeded(reading) ==
    IF Succeeded = {} THEN IsNull(reading)
    ELSE IF Cardinality(Succeeded) = 1 THEN reading = Records[1]
    ELSE /\ \A k \in NumericKeys : reading[k] = Num(MeanToOneDecimal(Records, k))
         /\ reading.sources
               = [i \in 1..Len(Records) |->
                     ProviderName(InPriority(Succeeded, Priority)[i])]

C2_MeanRoundedHalfAwayFromZero ==
    (Completed /\ ~lastCycle.aborted /\ Cardinality(Succeeded) >= 2) =>
        \A k \in NumericKeys :
            weatherData.current[k] = Num(MeanToOneDecimal(Records, k))

\* C3 as stated: for every non-empty set S of succeeded providers, the
\* consensus reading carries a contributing-providers list equal to S in
\* priority order, a set of one provider included.
C3_ListForEveryNonEmptySubset ==
    (Completed /\ ~lastCycle.aborted /\ Succeeded /= {}) =>
        /\ "sources" \in DOMAIN weatherData.current
        /\ weatherData.current.sources
              = [i \in 1..Cardinality(Succeeded) |->
                    ProviderName(InPriority(Succeeded, Priority)[i])]

\* C3 amended: for a set S of two or three succeeded providers the consensus
\* reading lists exactly S in priority order; for a single succeeded provider
\* the reading is that provider's record, which names the provider in its
\* source field and carries no list.
C3_ListInPriorityOrder ==
    (Completed /\ ~lastCycle.aborted /\ Succeeded /= {}) =>
        IF Cardinality(Succeeded) >= 2
        THEN /\ "sources" \in DOMAIN weatherData.current
             /\ weatherData.current.sources
                   = [i \in 1..Cardinality(Succeeded) |->
                         ProviderName(InPriority(Succeeded, Priority)[i])]
        ELSE /\ ~("sources" \in DOMAIN weatherData.current)
             /\ \A f \in Succeeded :
                   weatherData.current.source = ProviderName(f)

\* a cycle in which only the tertiary provider succeeded has ended
C3_SingleProviderCycle ==
    /\ Completed
    /\ Succeeded = {OM}
    /\ weatherData.current.source = "Open-Meteo"
    /\ ~("sources" \in DOMAIN weatherData.current)

\* C4: the five fetches are all launched by the time the cycle first waits,
\* and the consensus and the held data are derived only once all five have
\* settled, whatever the order in which they settle and whichever fail.
C4_DerivationAfterAllSettled ==
    /\ [](Completed =>
            \A f \in Fetches :
                lastCycle.results[f].status \in {"fulfilled", "rejected"})
    /\ [][/\ Len(cycles') > Len(cycles) =>
                \A f \in Fetches :
                    cycles'[Len(cycles')].st[f] \in {"requesting", "fulfilled"}
           /\ weatherData' /= weatherData => (~Completed /\ Completed')]_vars

\* a cycle has ended in which fetches failed and fetches succeeded, and the
\* held data were derived from those that succeeded
C4_MixedOutcomesCycle ==
    /\ Completed
    /\ Succeeded = {OM}
    /\ lastCycle.results[AQ].status = "rejected"
    /\ lastCycle.results[AL].status = "fulfilled"
    /\ ~IsNull(weatherData.current)
    /\ weatherData.current.source = "Open-Meteo"

\* C5: at most one cycle is in flight at any time, under every interleaving
\* of manual refresh, auto-refresh tick, location search, geolocation
\* button, online event and visibility change.
C5_AtMostOneCycleInFlight == Len(cycles) <= 1

\* C6: a refresh request that arrives while a cycle is in flight is a no-op:
\* it launches no second cycle and leaves the held data and the in-flight
\* cycle as they are.
C6_RefreshDuringCycleIsNoOp ==
    [][\A kind \in RefreshKinds :
          (cycles /= <<>> /\ refreshWeatherData(kind)) =>
              UNCHANGED <<cycles, weatherData, isLoading>>]_vars

\* the fetch f of invocation i has failed in the step taken: a weather fetch
\* is rejected, the air-quality fetch goes on to its fallback source or is
\* rejected, the alerts fetch gives the empty "error" result
FailedAfterStep(i, f) ==
    IF Len(cycles') = Len(cycles)
    THEN IF f \in WeatherFetches THEN cycles'[i].st[f] = "rejected"
         ELSE IF f = AQ THEN cycles'[i].st[f] \in {"requesting2", "rejected"}
         ELSE cycles'[i].st[f] = "fulfilled" /\ cycles'[i].value[f] = AlertsUnavailable
    ELSE IF f = AL THEN lastCycle'.results[f] = [status |-> "fulfilled",
                                                 value |-> AlertsUnavailable]
         ELSE lastCycle'.results[f].status = "rejected"

\* C7: when the timer of a network call fires first the call is a failure,
\* it stays one, and the later completion of the real request changes
\* neither the outcome of any fetch nor the held data.
C7_LateCompletionDiscarded ==
    [][/\ \A i \in 1..Len(cycles) : \A f \in Fetches :
              TimerFires(i, f) => FailedAfterStep(i, f)
       /\ \A i \in 1..Len(cycles) : \A f \in Fetches :
              (cycles[i].st[f] = "rejected" /\ Len(cycles') = Len(cycles))
                  => cycles'[i].st[f] = "rejected"
       /\ abandoned' < abandoned =>
              UNCHANGED <<cycles, weatherData, lastCycle, isLoading,
                          refreshTimer, intervals>>]_vars

\* the timer has failed the primary fetch of a cycle still in flight and
\* the request is still under way
C7_TimedOutFetchInFlight ==
    /\ abandoned > 0
    /\ cycles /= <<>>
    /\ cycles[1].st[OWM] = "rejected"
    /\ cycles[1].st[WB] = "requesting"

\* C8: every cycle that starts eventually finishes and clears the loading
\* flag, even if the network never answers: no awaited step waits beyond
\* the timeout.
C8_EveryCycleFinishes == (cycles /= <<>>) ~> (cycles = <<>> /\ ~isLoading)

\* C9: when all three weather fetches fail, the cycle raises a user-visible
\* signal that no provider is available, and the air quality and the alerts
\* that were fetched are held all the same.
C9_NoProviderSignalled ==
    (Completed /\ Succeeded = {}) =>
        /\ lastCycle.error
        /\ lastCycle.results[AQ].status = "fulfilled"
              => weatherData.airQuality = lastCycle.results[AQ].value
        /\ weatherData.alerts = lastCycle.results[AL].value.alerts

\* C10: the aggregator returns null, never a zero-valued object, for zero
\* records, so that after a cycle in which no weather provider succeeded
\* the held consensus reading is absent, whatever was held before.
C10_AbsentWithoutContributors ==
    /\ createEnsembleWeather(<<>>) = Null
    /\ (Completed /\ Succeeded = {}) => IsNull(weatherData.current)

\* a cycle in which no weather provider succeeded has ended, and a reading
\* was held before it
C10_ReadingDropped ==
    /\ Completed
    /\ Succeeded = {}
    /\ ~IsNull(lastCycle.before.current)
    /\ IsNull(weatherData.current)

\* the succeeded providers whose payload could be normalized
Contributing ==
    {f \in Succeeded : ~Threw(NormalizedOf(lastCycle.results, f, lastCycle.now))}

\* the records of the providers of S, in priority order
RecordsOf(S) ==
    [i \in 1..Len(InPriority(S, Priority)) |->
        NormalizedOf(lastCycle.results, InPriority(S, Priority)[i], lastCycle.now)]

\* the consensus reading the specification requires over the providers of S
IsConsensusOver(S, reading) ==
    IF S = {} THEN IsNull(reading)
    ELSE IF Cardinality(S) = 1 THEN reading = RecordsOf(S)[1]
    ELSE /\ \A k \in NumericKeys : reading[k] = Num(MeanToOneDecimal(RecordsOf(S), k))
         /\ reading.sources
               = [i \in 1..Len(RecordsOf(S)) |-> ProviderName(InPriority(S, Priority)[i])]

\* C11: a provider whose fetch succeeded with a payload that cannot be
\* normalized is left out like a failed one: the cycle is not cut short, the
\* reading held is the consensus over the other providers, and air quality
\* and alerts are derived from their own results
C11_MalformedPayloadExcluded ==
    (Completed /\ Contributing /= Succeeded)
        => /\ ~lastCycle.aborted
           /\ IsConsensusOver(Contributing, weatherData.current)
           /\ Fulfilled(lastCycle.results, AQ)
                 => weatherData.airQuality = lastCycle.results[AQ].value
           /\ Fulfilled(lastCycle.results, AL)
                 => weatherData.alerts = lastCycle.results[AL].value.alerts

\* the temperature of the current conditions in the payload of provider f:
\* main.temp, data[0].temp, current.temperature_2m
PrimaryTemperature(f) ==
    IF f = OWM
    THEN (IF "main" \in DOMAIN lastCycle.results[f].value.current
          THEN Get(lastCycle.results[f].value.current.main, "temp")
          ELSE Undefined)
    ELSE IF f = WB
    THEN (IF lastCycle.results[f].value.current = <<>> THEN Undefined
          ELSE Get(lastCycle.results[f].value.current[1], "temp"))
    ELSE (IF "current" \in DOMAIN lastCycle.results[f].value.data
          THEN Get(lastCycle.results[f].value.data.current, "temperature_2m")
          ELSE Undefined)

\* C12: for each of the three providers, normalizing a payload whose
\* temperature is absent fails, and a provider whose temperature is absent
\* is never among the records averaged into the consensus temperature (where
\* it would count as 0)
C12_AbsentTemperatureFails ==
    Completed =>
        \A f \in Succeeded :
            PrimaryTemperature(f) = Undefined
                => /\ Threw(NormalizedOf(lastCycle.results, f, lastCycle.now))
                   /\ ~(~lastCycle.aborted /\ Cardinality(Succeeded) >= 2)

\* C13: a weather fetch whose response carries a non-success HTTP status
\* ends as a failed outcome in the step in which the response arrives: its
\* body is not read and normalized
C13_HttpErrorIsFailure ==
    [][\A i \in 1..Len(cycles) : \A f \in WeatherFetches :
          ResponseArrives(i, f, FALSE) => FailedAfterStep(i, f)]_vars

\* C14: given a single record, the aggregator returns the record itself,
\* every field unchanged: nothing is averaged or rounded again (a provider
\* reporting 12.34 on its own gives 12.34)
C14_SingleRecordReturnedAsIs ==
    (Completed /\ Cardinality(Succeeded) = 1)
        => /\ createEnsembleWeather(RecordsOf(Succeeded)) = RecordsOf(Succeeded)[1]
           /\ weatherData.current = RecordsOf(Succeeded)[1]

\* a cycle in which only the secondary provider succeeded, reporting 12.34,
\* has ended
C14_UnroundedSingleRecord ==
    /\ Completed
    /\ Succeeded = {WB}
    /\ PrimaryTemperature(WB) = Num(1234)
    /\ weatherData.current.temperature = Num(1234)
    /\ weatherData.current.source = "Weatherbit"

\* C15: for every non-empty set of contributing providers the description
\* and the icon of the consensus are those of the contributor that comes
\* first in the priority order, unchanged
C15_DescriptionFromFirstContributor ==
    (Completed /\ ~lastCycle.aborted /\ Succeeded /= {})
        => /\ weatherData.current.description = RecordsOf(Succeeded)[1].description
           /\ weatherData.current.icon = RecordsOf(Succeeded)[1].icon

\* a cycle in which the secondary and tertiary providers contributed has
\* ended, the consensus carrying the secondary's description
C15_SecondaryDescribes ==
    /\ Completed
    /\ ~lastCycle.aborted
    /\ Succeeded = {WB, OM}
    /\ weatherData.current.description = Text("Few clouds")
    /\ RecordsOf({OM})[1].description /= Text("Few clouds")
    /\ weatherData.current.icon /= RecordsOf({OM})[1].icon

\* C16: in every reachable state at most one auto-refresh timer is armed,
\* whatever the sequence of cycle completions, openings of the settings
\* dialog and changes of the auto-refresh setting
C16_AtMostOneTimerArmed == Cardinality(intervals) <= 1

\* a cycle has ended and armed the timer anew while one was armed, after the
\* settings dialog was opened twice
C16_TimerArmedAgain ==
    /\ Completed
    /\ ~lastCycle.aborted
    /\ lastCycle.armedBefore /= {}
    /\ changeListeners = 2
    /\ Cardinality(intervals) = 1
    /\ refreshTimer \in intervals

\* C17: while the auto-refresh setting is off no auto-refresh timer is
\* armed and no timer tick can start a cycle, also after cycles that end
\* while it is off
C17_NoTimerWhileSwitchedOff ==
    ~settings.AUTO_REFRESH
        => /\ intervals = {}
           /\ ~ENABLED refreshWeatherData("interval")

\* a timer had been armed, the setting was switched off, and a cycle has
\* since ended without arming one
C17_CycleEndedWhileOff ==
    /\ Completed
    /\ ~lastCycle.aborted
    /\ ~lastCycle.autoRefresh
    /\ ~settings.AUTO_REFRESH
    /\ refreshTimer /= 0
    /\ intervals = {}

\* the forecast kinds, with the number of entries shown of each
Horizon == [hourly |-> 24, daily |-> 7]

\* Secondary succeeded and returned the series of the kind
SecondarySupplies(kind) ==
    WB \in Succeeded /\ lastCycle.results[WB].value[kind] /= Undefined

\* the whole series Tertiary's parallel arrays describe
TertiarySeries(kind) ==
    IF kind = "hourly"
    THEN [i \in 1..Len(lastCycle.results[OM].value.data.hourly.time) |->
            [time |-> lastCycle.results[OM].value.data.hourly.time[i],
             temp |-> lastCycle.results[OM].value.data.hourly.temperature_2m[i],
             feels_like |-> lastCycle.results[OM].value.data.hourly.apparent_temperature[i],
             humidity |-> lastCycle.results[OM].value.data.hourly.relative_humidity_2m[i],
             precipitation_prob |->
                 lastCycle.results[OM].value.data.hourly.precipitation_probability[i],
             weather_code |-> lastCycle.results[OM].value.data.hourly.weather_code[i],
             wind_speed |-> lastCycle.results[OM].value.data.hourly.wind_speed_10m[i],
             uv_index |-> lastCycle.results[OM].value.data.hourly.uv_index[i]]]
    ELSE [i \in 1..Len(lastCycle.results[OM].value.data.daily.time) |->
            [date |-> lastCycle.results[OM].value.data.daily.time[i],
             max_temp |-> lastCycle.results[OM].value.data.daily.temperature_2m_max[i],
             min_temp |-> lastCycle.results[OM].value.data.daily.temperature_2m_min[i],
             weather_code |-> lastCycle.results[OM].value.data.daily.weather_code[i],
             precipitation_sum |->
                 lastCycle.results[OM].value.data.daily.precipitation_sum[i],
             wind_speed_max |-> lastCycle.results[OM].value.data.daily.wind_speed_10m_max[i],
             uv_index_max |-> lastCycle.results[OM].value.data.daily.uv_index_max[i],
             precipitation_probability_max |->
                 lastCycle.results[OM].value.data.daily.precipitation_probability_max[i]]]

\* the series the cycle's series of the kind is to be taken from
SourceSeries(kind) ==
    IF SecondarySupplies(kind) THEN lastCycle.results[WB].value[kind][1]
    ELSE IF OM \in Succeeded THEN TertiarySeries(kind)
    ELSE <<>>

\* held begins source: the entries of held are entries of source, in place
Begins(held, source) ==
    /\ Len(held) <= Len(source)
    /\ \A i \in 1..Len(held) : held[i] = source[i]

\* C18: for the hourly and the daily series independently, the series held
\* after a cycle is taken from Secondary's series when Secondary succeeded
\* and returned it, else from Tertiary's arrays when Tertiary succeeded, else
\* it is empty; its entries are entries of that one source, never Primary's
\* and never averaged, and it is empty only when that source has no entry
C18_SeriesFromOneSource ==
    Completed =>
        \A kind \in DOMAIN Horizon :
            /\ Begins(weatherData[kind], SourceSeries(kind))
            /\ (weatherData[kind] = <<>>) <=> (SourceSeries(kind) = <<>>)

\* a cycle has ended in which Secondary returned the daily but not the
\* hourly series and Tertiary succeeded: the daily series held is
\* Secondary's, the hourly one is derived from Tertiary's arrays
C18_SourcesChosenPerSeries ==
    /\ Completed
    /\ {WB, OM} \subseteq Succeeded
    /\ SecondarySupplies("daily")
    /\ ~SecondarySupplies("hourly")
    /\ weatherData.daily /= <<>>
    /\ "datetime" \in DOMAIN weatherData.daily[1]
    /\ weatherData.hourly /= <<>>
    /\ "feels_like" \in DOMAIN weatherData.hourly[1]

\* C19: for a source series of n entries the daily series held has the
\* first min(7, n) entries of the source and the hourly series the first
\* min(24, n), in the order of the source and with no entry added
C19_FirstEntriesOfSource ==
    Completed =>
        \A kind \in DOMAIN Horizon :
            /\ Len(weatherData[kind])
                  = (IF Len(SourceSeries(kind)) < Horizon[kind]
                     THEN Len(SourceSeries(kind)) ELSE Horizon[kind])
            /\ weatherData[kind]
                  = [i \in 1..Len(weatherData[kind]) |-> SourceSeries(kind)[i]]

\* a cycle has ended whose daily source had 10 entries, of which 7 are
\* held, and whose hourly source had 3, all held
C19_TenGiveSevenThreeGiveThree ==
    /\ Completed
    /\ Len(SourceSeries("daily")) = 10
    /\ Len(weatherData.daily) = 7
    /\ Len(SourceSeries("hourly")) = 3
    /\ Len(weatherData.hourly) = 3

\* the severity of an alert, nested under properties or directly on it
SeverityOf(alert) ==
    IF "properties" \in DOMAIN alert THEN Get(alert.properties, "severity")
    ELSE Get(alert, "severity")

\* the severity is severe, extreme or critical, whatever the case
IsSevere(alert) ==
    /\ SeverityOf(alert) /= Undefined
    /\ toLowerCase(SeverityOf(alert)[1]) \in {"severe", "extreme", "critical"}

\* C20: the severe-only view holds exactly the alerts whose severity is
\* severe, extreme or critical in any case, whether the severity is nested
\* under properties or directly on the record, and the full list holds
\* every alert
C20_SevereViewWhateverShape ==
    (Completed /\ ~lastCycle.aborted)
        => /\ lastCycle.severeAlerts = SelectSeq(weatherData.alerts, IsSevere)
           /\ Len(lastCycle.alertsCard) = Len(weatherData.alerts)
           /\ \A i \in 1..Len(weatherData.alerts) :
                 lastCycle.alertsCard[i].severity = SeverityOf(weatherData.alerts[i])

\* the alert fetch of the invocation that ended failed: network error,
\* timeout or non-success status
AlertFetchFailed == lastCycle.results[AL] = [status |-> "fulfilled", value |-> AlertsUnavailable]

\* C21: a failure of the alert fetch never propagates: the alert fetch is
\* never rejected, and after a cycle whose alert fetch failed the alert list
\* held is empty, not the one of the cycle before
C21_AlertFailureGivesEmptyList ==
    /\ \A i \in 1..Len(cycles) : cycles[i].st[AL] /= "rejected"
    /\ Completed => Fulfilled(lastCycle.results, AL)
    /\ (Completed /\ AlertFetchFailed) => weatherData.alerts = <<>>

\* C22: after a cycle whose air-quality fetch failed on both its sources,
\* the air-quality result held is empty: the record of an earlier cycle is
\* not carried over
C22_NoAirQualityCarriedOver ==
    (Completed /\ ~lastCycle.aborted /\ lastCycle.results[AQ].status = "rejected")
        => IsNull(weatherData.airQuality)

\* the tips written for the invocation that ended, which held a reading
TipsShown == Completed /\ ~lastCycle.aborted /\ ~IsNull(weatherData.current)

\* the place of a tip in the rule order: UV, temperature, humidity, air
\* quality, wind; the default tip is no rule's
RuleOf(tip) ==
    IF tip = "uv" THEN 1
    ELSE IF tip \in {"heat", "freeze"} THEN 2
    ELSE IF tip \in {"humid", "dry"} THEN 3
    ELSE IF tip = "air" THEN 4
    ELSE IF tip = "wind" THEN 5
    ELSE 6

\* the tip is among the tips written
Tipped(tip) == \E i \in 1..Len(lastCycle.tips) : lastCycle.tips[i] = tip

\* the air-quality record held reports an index on the 0-500 scale
OnUsScale ==
    /\ ~IsNull(weatherData.airQuality)
    /\ weatherData.airQuality.source = "open-meteo"
    /\ weatherData.airQuality.data /= Undefined

\* C23: the tips follow the rule order UV, temperature, humidity, air
\* quality, wind, each rule adding at most one tip, and a rule adds its tip
\* exactly when its threshold is crossed: UV >= 3, temperature > 30 or < 0,
\* humidity > 70 or < 30, AQI > 100 on the 0-500 scale, wind > 25 km/h
C23_TipsInRuleOrder ==
    TipsShown =>
        /\ \A i, j \in 1..Len(lastCycle.tips) :
              i < j => RuleOf(lastCycle.tips[i]) < RuleOf(lastCycle.tips[j])
        /\ Tipped("uv") <=> weatherData.current.uvIndex[1] >= 300
        /\ Tipped("heat") <=> weatherData.current.temperature[1] > 3000
        /\ Tipped("freeze") <=> weatherData.current.temperature[1] < 0
        /\ Tipped("humid") <=> weatherData.current.humidity[1] > 7000
        /\ Tipped("dry") <=> weatherData.current.humidity[1] < 3000
        /\ Tipped("wind") <=> weatherData.current.windSpeed[1] > 2500
        /\ OnUsScale => (Tipped("air") <=> weatherData.airQuality.data[1].us_aqi[1] > 100)
        /\ IsNull(weatherData.airQuality) => ~Tipped("air")

\* UV index 5, temperature 35 and humidity 20 give the UV, high-temperature
\* and low-humidity tips, in that order
C23_UvHeatDry ==
    /\ TipsShown
    /\ weatherData.current.uvIndex = Num(500)
    /\ weatherData.current.temperature = Num(3500)
    /\ weatherData.current.humidity = Num(2000)
    /\ lastCycle.tips = <<"uv", "heat", "dry">>

\* C24: the tips written for a reading are never empty, the default tip is
\* written exactly when no rule added a tip, and then it is the only tip
C24_DefaultTipAlone ==
    TipsShown =>
        /\ lastCycle.tips /= <<>>
        /\ Tipped("default") <=> (\A i \in 1..Len(lastCycle.tips) : RuleOf(lastCycle.tips[i]) = 6)
        /\ Tipped("default") => lastCycle.tips = <<"default">>

\* mild conditions and clean air: the default tip alone
C24_FavourableConditions ==
    /\ TipsShown
    /\ weatherData.current.temperature = Num(2000)
    /\ weatherData.current.humidity = Num(5000)
    /\ OnUsScale
    /\ lastCycle.tips = <<"default">>

\* C25: an air-quality record on the 1-5 scale at its poorest levels (4 and
\* 5) gives the air-quality tip, as a reading above 100 on the 0-500 scale
\* does
C25_PoorIndexGivesTip ==
    (/\ TipsShown
     /\ ~IsNull(weatherData.airQuality)
     /\ weatherData.airQuality.source = "openweathermap"
     /\ weatherData.airQuality.data /= Undefined
     /\ weatherData.airQuality.data[1].main.aqi[1] >= 4)
        => Tipped("air")

\* an observation form has been submitted and its handler has ended
Submitted == storage.lastSubmit /= NoValue

\* C27: a submission made while localStorage accepts the write ends with the
\* observation stored at the head of the stored list, on the IndexedDB path
\* as on the localStorage path, and never in the failure branch
C27_ObservationStoredAtHead ==
    (Submitted /\ storage.lastSubmit.writable) =>
        /\ storage.lastSubmit.outcome = "saved"
        /\ storage.items /= <<>>
        /\ Head(storage.items) = storage.lastSubmit.observation

\* C26: for each weather provider that answered, normalizing its payload at
\* the moment of the cycle and at a later moment gives equal records,
\* observation timestamp included
C26_NormalizingTwiceGivesEqualRecords ==
    Completed =>
        \A f \in WeatherFetches :
            Fulfilled(lastCycle.results, f) =>
                NormalizedOf(lastCycle.results, f, lastCycle.now)
                    = NormalizedOf(lastCycle.results, f, lastCycle.now + 1)

\* C28: after a cycle has ended the held result is the one held before the
\* cycle, or the result of processing the new cycle's five results on their
\* own; it is never made of fields of both
C28_HeldResultOfOneCycle ==
    Completed =>
        \/ weatherData = lastCycle.before
        \/ \E p \in {processEnsembleData(InitialWeatherData, lastCycle.results,
                                        lastCycle.now)} :
              ~p.threw /\ weatherData = p.wd

\* no operation that shows the loading overlay is in progress: no cycle in
\* flight, no search awaiting its answer, no geolocation request pending
NothingInProgress == cycles = <<>> /\ search = "idle" /\ geo.st = "idle"

\* C29: once every operation that set the loading flag has ended, the flag
\* is eventually cleared
C29_LoadingFlagEventuallyCleared == NothingInProgress ~> ~isLoading

\* C30: once every started cycle has ended, the weather data held were
\* written by a cycle started for the current location
C30_HeldDataOfCurrentLocation ==
    (cycles = <<>> /\ Completed /\ ~lastCycle.aborted)
        => lastCycle.loc = currentLocation

====
